---- MODULE Spec2Model ----
(***************************************************************************)
(* Model of the particle engine of christmas-lofi: the ObjectPool          *)
(* (utils/pool.js) and the particle scenes built on it (SnowSystem,        *)
(* MagicSparkles, TestScene).                                              *)
(*                                                                         *)
(* Entities are the objects the pool's factory returns; the k-th call of   *)
(* the factory returns entity k.  Foreign is an object no factory call of  *)
(* this pool returned.  The free list `pool` is a JavaScript array and     *)
(* `active` a JavaScript Set, modelled as the sequence of its members in   *)
(* insertion order (the order `for (const obj of this.active)` visits).    *)
(*                                                                         *)
(* A pool operation that is given a callback (initializer, reset, cleanup) *)
(* is split at each call of the callback: the state in which the callback  *)
(* runs is a state of the model, so what caller code can observe from      *)
(* inside a callback is checked as well.  While an operation is under way  *)
(* only its next step is enabled.  Callbacks observe the pool; they do not *)
(* call back into it.                                                      *)
(***************************************************************************)
EXTENDS Integers, Sequences, FiniteSets, TLC

\* ---------------------------------------------------------------- bounds
\* Most factory calls one pool lives through.
MaxEntities == 4
\* Largest initialSize a pool is constructed with.
MaxInitialSize == 2
\* Largest count passed to expand.
MaxExpand == 2

\* An object that no factory call of the pool returned.
Foreign == 0

Entities == 1..MaxEntities
Objects == Entities \cup {Foreign}

VARIABLES
    pool,        \* ObjectPool.pool: the free list
    active,      \* ObjectPool.active: the Set, in insertion order
    nextId,      \* number of factory calls so far
    pc,          \* "idle", or the callback the running operation is inside
    op,          \* the operation running, or the last one that ran
    pre,         \* pool and active when that operation was called
    calls,       \* calls[e]: times that operation's callback was given e
    initialSize, \* the initialSize the pool was constructed with
    acquireRun,  \* acquires since construction while nothing else was called, else -1
    disposedUpTo \* entities 1..disposedUpTo were in the pool when dispose emptied it

poolVars == <<pool, active, nextId, pc, op, pre, calls, initialSize, acquireRun,
              disposedUpTo>>

\* A particle scene (SnowSystem, MagicSparkles or TestScene) and its pool.
VARIABLES
    scene,         \* which class the scene is; "none" when the pool is used alone
    stage,         \* "constructed", "added", "updating", "recycling", "destroyed"
    particleCount, \* this.particleCount
    particles,     \* this.particles: the live list
    children,      \* this.container.children
    attr,          \* attr[e]: the fields the scene keeps on entity e
    loop           \* the running update: its delta and the loop index i, with the
                   \* live list it began with, the particles its passes have
                   \* taken, in order, and the entities it has spawned

\* SnowSystem's wind state, in WindDen-ths (the timer in seconds).
VARIABLES
    windDirection,       \* this.windDirection
    targetWindDirection, \* this.targetWindDirection
    windChangeTimer      \* this.windChangeTimer

windVars == <<windDirection, targetWindDirection, windChangeTimer>>

sceneVars == <<scene, stage, particleCount, particles, children, attr, loop, windVars>>

\* The App (core/App.js), the ticker and the window's resize listener.
VARIABLES
    scenes,        \* App.scenes
    isRunning,     \* App.isRunning
    listeners,     \* callbacks start has added to app.ticker
    tickerStarted, \* whether app.ticker is running
    elapsed,       \* App.elapsed
    destroyed,     \* App.destroy has run
    hooks,         \* hooks[s]: the onAdd and onDestroy calls scene s has received
    torn,          \* scenes destroy gave onDestroy to, not attached again since
    frame          \* the last handler that ran, the scene methods it called, the
                   \* timer that fired and the ids destroy cleared

\* The App's timers and the host's timer table (setTimeout, setInterval).
VARIABLES
    timers,        \* App.timers: the Set of ids
    pending,       \* pending[id]: "timeout" or "interval" while the host holds id
    nextTimer,     \* ids the host has handed out so far
    clearedUpTo    \* the ids handed out before the last destroy

timerVars == <<timers, pending, nextTimer, clearedUpTo>>

\* The module's singleton and the createApp calls under way.
VARIABLES
    instance,      \* the module variable `instance`: an App, or NoApp for null
    appStatus,     \* appStatus[a]: how far App a has got
    call           \* call[c]: where the c-th createApp call is, what it returned

singletonVars == <<instance, appStatus, call>>

appVars == <<scenes, isRunning, listeners, tickerStarted, elapsed, destroyed,
             hooks, torn, frame, timerVars, singletonVars>>

\* A pure function of the utilities under evaluation.
VARIABLES
    instances,     \* the Noise instances constructed: seed and permutation table
    fn,            \* the function last applied, with its arguments
    ret            \* what it returned

pureVars == <<instances, fn, ret>>

otherVars == <<appVars, pureVars>>

\* ------------------------------------------------------------ JS helpers
Range(s) == {s[i] : i \in 1..Len(s)}

\* Set.prototype.has
SetHas(a, obj) == obj \in Range(a)

\* Set.prototype.add: a member keeps its place, a new one goes last.
SetAdd(a, obj) == IF SetHas(a, obj) THEN a ELSE Append(a, obj)

\* Set.prototype.delete
\* (variant: a delete that removes nothing)
SetDeleteNothing(a, obj) == a
SetDelete(a, obj) == SelectSeq(a, LAMBDA e : e # obj)

\* Array.prototype.push of the objects of a sequence, in order.
PushAll(p, objs) == p \o objs

\* The next `count` objects the factory returns after n calls.
Fresh(n, count) == [i \in 1..count |-> n + i]

\* How many times e occurs in a sequence.
Times(seq, e) == Cardinality({i \in 1..Len(seq) : seq[i] = e})

NoCalls == [e \in Objects |-> 0]
Called(c, obj) == [c EXCEPT ![obj] = @ + 1]

\* ------------------------------------------------------------ ObjectPool
\* constructor: initialSize factory objects pushed on the free list.
\* (variant: nothing is made in advance)
ConstructPoolEmpty(size) == <<>>
ConstructPool(size) == PushAll(<<>>, Fresh(0, size))

\* stats getter.  (variant: total kept as a count of factory calls)
StatsCountingFactory ==
    [available |-> Len(pool),
     active    |-> Cardinality(Range(active)),
     total     |-> nextId]
Stats ==
    [available |-> Len(pool),
     active    |-> Cardinality(Range(active)),
     total     |-> Len(pool) + Cardinality(Range(active))]

Snapshot == [pool |-> pool, active |-> active, nextId |-> nextId, total |-> Stats.total]

\* acquire, line 339: the object handed out, the free list left, the factory count.
\* (variants: no factory fallback; the object is not popped)
AcquireObjNoFactory(p, n) == IF Len(p) > 0 THEN p[Len(p)] ELSE Foreign
AcquireObj(p, n) == IF Len(p) > 0 THEN p[Len(p)] ELSE n + 1
AcquirePoolNoPop(p) == p
AcquirePool(p) == IF Len(p) > 0 THEN SubSeq(p, 1, Len(p) - 1) ELSE p
AcquireNextId(p, n) == IF Len(p) > 0 THEN n ELSE n + 1

\* release, line 351: the guard that lets release act.  (variant: no guard)
ReleaseUnguarded(a, obj) == TRUE
ReleaseActs(a, obj) == SetHas(a, obj)

\* releaseAll, line 366: the active set after the loop.  (variant: not cleared)
ReleaseAllKeepsActive(a) == a
ReleaseAllActive(a) == <<>>

\* expand, lines 385-387.  (variant: a loop that stops one short)
ExpandPoolOneShort(p, n, count) == PushAll(p, Fresh(n, count - 1))
ExpandPool(p, n, count) == PushAll(p, Fresh(n, count))

\* dispose, lines 396-397: the objects cleanup is given, in order.
\* (variant: the free list only)
DisposeOnlyFree(p, a) == p
DisposeOrder(p, a) == p \o a

\* Largest number of distinct scene objects, and of entries of App.scenes.
MaxScenes == 2
SceneIds == 1..MaxScenes

\* Most timers the host is asked for.
MaxTimers == 3
TimerIds == 1..MaxTimers

\* Most createApp calls.  The c-th call creates App c; NoApp is null.
MaxCalls == 4
CallIds == 1..MaxCalls
NoApp == 0

\* new App(): no scene, not running, elapsed 0, no timer; Application.init has
\* started the ticker.  No handler has run.
NoSceneCalls == [s \in SceneIds |-> 0]
NoFrame == [name |-> "none", delta |-> 0, before |-> 0,
            update |-> NoSceneCalls, onResize |-> NoSceneCalls, timer |-> 0,
            cleared |-> {}]
AppConstructed ==
    /\ scenes = <<>>
    /\ isRunning = FALSE
    /\ listeners = 0
    /\ tickerStarted = TRUE
    /\ elapsed = 0
    /\ destroyed = FALSE
    /\ hooks = [s \in SceneIds |-> [onAdd |-> 0, onDestroy |-> 0]]
    /\ torn = {}
    /\ frame = NoFrame
    /\ timers = {}
    /\ pending = [id \in TimerIds |-> "none"]
    /\ nextTimer = 0
    /\ clearedUpTo = 0
    /\ instance = NoApp
    /\ appStatus = [a \in CallIds |-> "none"]
    /\ call = [c \in CallIds |-> [pc |-> "idle", ret |-> NoApp]]

\* SnowSystem's constructor, lines 695-697: no wind.
WindCalm ==
    /\ windDirection = 0
    /\ targetWindDirection = 0
    /\ windChangeTimer = 0

\* No update is running.
NoLoop == [delta |-> 0, i |-> 0, start |-> <<>>, visited |-> <<>>, spawned |-> {}]

\* No utility function has been applied.
NothingApplied ==
    /\ instances = <<>>
    /\ fn = [name |-> "none"]
    /\ ret = 0

\* No pool and no particle scene: the state the App and the utilities are
\* explored in.
EngineIdle ==
    /\ pool = <<>> /\ active = <<>> /\ nextId = 0 /\ pc = "idle"
    /\ op = [name |-> "construct", obj |-> Foreign, cb |-> FALSE, idx |-> 0, count |-> 0]
    /\ pre = [pool |-> <<>>, active |-> <<>>, nextId |-> 0, total |-> 0]
    /\ calls = NoCalls /\ initialSize = 0 /\ acquireRun = -1 /\ disposedUpTo = 0
    /\ scene = "none" /\ stage = "constructed" /\ particleCount = 0
    /\ particles = <<>> /\ children = <<>> /\ attr = <<>>
    /\ loop = NoLoop
    /\ WindCalm

Init ==
    /\ AppConstructed
    /\ NothingApplied
    /\ initialSize \in 0..MaxInitialSize
    /\ pool = ConstructPool(initialSize)
    /\ active = <<>>
    /\ nextId = initialSize
    /\ pc = "idle"
    /\ op = [name |-> "construct", obj |-> Foreign, cb |-> FALSE, idx |-> 0, count |-> 0]
    /\ pre = [pool |-> <<>>, active |-> <<>>, nextId |-> 0, total |-> 0]
    /\ calls = NoCalls
    /\ acquireRun = 0
    /\ disposedUpTo = 0
    /\ scene = "none"
    /\ stage = "constructed"
    /\ particleCount = 0
    /\ particles = <<>>
    /\ children = <<>>
    /\ attr = <<>>
    /\ loop = NoLoop
    /\ WindCalm

Begin(name, obj, cb, idx, count) ==
    /\ pc = "idle"
    /\ op' = [name |-> name, obj |-> obj, cb |-> cb, idx |-> idx, count |-> count]
    /\ pre' = Snapshot
    /\ UNCHANGED <<initialSize, sceneVars, otherVars>>

\* acquire(initializer): lines 339-341; with an initializer the step ends inside it.
Acquire ==
    \E cb \in BOOLEAN :
        LET obj == AcquireObj(pool, nextId) IN
        /\ AcquireNextId(pool, nextId) <= MaxEntities
        /\ Begin("acquire", obj, cb, 0, 0)
        /\ pool' = AcquirePool(pool)
        /\ nextId' = AcquireNextId(pool, nextId)
        /\ active' = SetAdd(active, obj)
        /\ calls' = IF cb THEN Called(NoCalls, obj) ELSE NoCalls
        /\ pc' = IF cb THEN "acquire_init" ELSE "idle"
        /\ acquireRun' = IF acquireRun >= 0 THEN acquireRun + 1 ELSE -1
        /\ UNCHANGED disposedUpTo

\* acquire, line 342: the initializer has returned.
AcquireReturn ==
    /\ pc = "acquire_init"
    /\ pc' = "idle"
    /\ UNCHANGED <<pool, active, nextId, op, pre, calls, initialSize, acquireRun, disposedUpTo, sceneVars, otherVars>>

\* release(obj, reset): lines 351-354; with a reset the step ends inside it.
Release ==
    \E obj \in 0..nextId, cb \in BOOLEAN :
        /\ Begin("release", obj, cb, 0, 0)
        /\ acquireRun' = -1
        /\ UNCHANGED <<nextId, disposedUpTo>>
        /\ IF ~ReleaseActs(active, obj)
           THEN /\ calls' = NoCalls
                /\ pc' = "idle"
                /\ UNCHANGED <<pool, active>>
           ELSE /\ active' = SetDelete(active, obj)
                /\ IF cb
                   THEN /\ calls' = Called(NoCalls, obj)
                        /\ pc' = "release_reset"
                        /\ UNCHANGED pool
                   ELSE /\ calls' = NoCalls
                        /\ pc' = "idle"
                        /\ pool' = Append(pool, obj)

\* release, line 354: reset has returned, the object is pushed.
ReleasePush ==
    /\ pc = "release_reset"
    /\ pool' = Append(pool, op.obj)
    /\ pc' = "idle"
    /\ UNCHANGED <<active, nextId, op, pre, calls, initialSize, acquireRun, disposedUpTo, sceneVars, otherVars>>

\* releaseAll(reset): lines 362-366.  Without a reset, or with nothing active,
\* the call has no callback and is one step; with one it ends inside the first reset.
ReleaseAll ==
    \E cb \in BOOLEAN :
        /\ IF cb /\ Len(active) > 0
           THEN Begin("releaseAll", active[1], cb, 1, 0)
           ELSE Begin("releaseAll", Foreign, cb, 0, 0)
        /\ acquireRun' = -1
        /\ UNCHANGED <<nextId, disposedUpTo>>
        /\ IF cb /\ Len(active) > 0
           THEN /\ calls' = Called(NoCalls, active[1])
                /\ pc' = "releaseAll_reset"
                /\ UNCHANGED <<pool, active>>
           ELSE /\ calls' = NoCalls
                /\ pool' = PushAll(pool, active)
                /\ active' = ReleaseAllActive(active)
                /\ pc' = "idle"

\* releaseAll, lines 364-366: a reset has returned; push its object, then either
\* enter the reset of the next active object or clear the active set.
ReleaseAllNext ==
    /\ pc = "releaseAll_reset"
    /\ pool' = Append(pool, active[op.idx])
    /\ IF op.idx < Len(active)
       THEN /\ op' = [op EXCEPT !.idx = @ + 1, !.obj = active[op.idx + 1]]
            /\ calls' = Called(calls, active[op.idx + 1])
            /\ UNCHANGED <<active, pc>>
       ELSE /\ active' = ReleaseAllActive(active)
            /\ pc' = "idle"
            /\ UNCHANGED <<op, calls>>
    /\ UNCHANGED <<nextId, pre, initialSize, acquireRun, disposedUpTo, sceneVars, otherVars>>

\* expand(count): lines 385-387.
Expand ==
    \E count \in 0..MaxExpand :
        /\ nextId + count <= MaxEntities
        /\ Begin("expand", Foreign, FALSE, 0, count)
        /\ pool' = ExpandPool(pool, nextId, count)
        /\ nextId' = nextId + count
        /\ calls' = NoCalls
        /\ pc' = "idle"
        /\ acquireRun' = -1
        /\ UNCHANGED <<active, disposedUpTo>>

\* dispose(cleanup): lines 395-400.  Without a cleanup, or with an empty pool,
\* one step; with one the step ends inside the first cleanup.
Dispose ==
    \E cb \in BOOLEAN :
        /\ IF cb /\ Len(DisposeOrder(pool, active)) > 0
           THEN Begin("dispose", DisposeOrder(pool, active)[1], cb, 1, 0)
           ELSE Begin("dispose", Foreign, cb, 0, 0)
        /\ acquireRun' = -1
        /\ UNCHANGED nextId
        /\ IF cb /\ Len(DisposeOrder(pool, active)) > 0
           THEN /\ calls' = Called(NoCalls, DisposeOrder(pool, active)[1])
                /\ pc' = "dispose_cleanup"
                /\ UNCHANGED <<pool, active, disposedUpTo>>
           ELSE /\ calls' = NoCalls
                /\ pool' = <<>>
                /\ active' = <<>>
                /\ disposedUpTo' = nextId
                /\ pc' = "idle"

\* dispose, lines 396-400: a cleanup has returned; enter the next one, or empty
\* both collections.
DisposeNext ==
    /\ pc = "dispose_cleanup"
    /\ IF op.idx < Len(DisposeOrder(pool, active))
       THEN /\ op' = [op EXCEPT !.idx = @ + 1,
                               !.obj = DisposeOrder(pool, active)[op.idx + 1]]
            /\ calls' = Called(calls, DisposeOrder(pool, active)[op.idx + 1])
            /\ UNCHANGED <<pool, active, pc, disposedUpTo>>
       ELSE /\ pool' = <<>>
            /\ active' = <<>>
            /\ disposedUpTo' = nextId
            /\ pc' = "idle"
            /\ UNCHANGED <<op, calls>>
    /\ UNCHANGED <<nextId, pre, initialSize, acquireRun, sceneVars, otherVars>>

Next ==
    \/ Acquire
    \/ AcquireReturn
    \/ Release
    \/ ReleasePush
    \/ ReleaseAll
    \/ ReleaseAllNext
    \/ Expand
    \/ Dispose
    \/ DisposeNext

vars == <<poolVars, sceneVars, appVars, pureVars>>

Spec == Init /\ [][Next]_vars

\* ============================================================ the scenes
\* SnowSystem (part_000 683-838), MagicSparkles (MagicSparkles.js) and
\* TestScene (part_001 14-131) own a pool, a live list `particles` and a
\* container.  Positions are pixels, times seconds, depth a percentage (80 is
\* 0.8).  Math.random, the flow field and Math.sin are inputs: each draw is a
\* choice from a small set of values the real functions can take.
\*
\* update runs its loop one particle a step (the index i counts down as in
\* the source); the last step also does what follows the loop, so the scene
\* is back at stage "added" exactly when update has returned.

Scenes == {"snow", "sparkles", "test"}

\* Largest particleCount a scene is built with.
MaxParticles == 2

\* app.width and app.height.
Width == 20
Height == 50

\* Frame deltas, and the values drawn for flow.x, flow.y and Math.sin.
Deltas == {0, 1}
Signs == {-1, 0, 1}

\* math.js lerp(a, b, t), t a percentage.
Lerp(a, b, t) == a + ((b - a) * t) \div 100

\* The fraction of a pixel that `sub` counts: sin * 0.5 * depth with depth a
\* percentage is sin * depth two-hundredths.
SubDen == 200

\* A factory object before any initializer has run on it.
Blank ==
    [x |-> 0, sub |-> 0, y |-> 0, depth |-> 0, vx |-> 0, vy |-> 0, age |-> 0,
     lifetime |-> 0]

\* SnowSystem.spawnParticle's initializer: x in [-50, width + 50], y in
\* [-50, -10] at the top and [0, height] otherwise, depth in [0, 1).
SnowSpawn(atTop) ==
    {[x |-> cx, sub |-> 0, y |-> cy, depth |-> d, vx |-> 0, vy |-> Lerp(30, 100, d),
      age |-> 0, lifetime |-> 0] :
        cx \in {Width}, cy \in (IF atTop THEN {-20} ELSE {0, Height}), d \in {50, 80}}

\* MagicSparkles.spawnParticle's initializer (it takes no atTop): x in
\* [0, width], y in [0, 0.8 height], vx in [-5, 5], vy in [-3, 3], lifetime in
\* [5, 15], age in [0, lifetime).
SparkleSpawn ==
    {[x |-> cx, sub |-> 0, y |-> cy, depth |-> 0, vx |-> 0, vy |-> 0, age |-> a, lifetime |-> l] :
        cx \in {Width \div 2}, cy \in {Height \div 2}, l \in {5}, a \in {3, 4}}

\* TestScene.spawnParticle's initializer: x in [0, width], y = -10 at the top
\* and in [0, height] otherwise, depth = size / 4 with size in [1, 4), vy =
\* randomRange(20, 60) * depth.  (variant: atTop is ignored)
TestSpawnAnywhere(atTop) ==
    {[x |-> cx, sub |-> 0, y |-> cy, depth |-> d, vx |-> 0, vy |-> (speed * d) \div 100,
      age |-> 0, lifetime |-> 0] :
        cx \in {Width}, cy \in {0, Height}, d \in {50, 80}, speed \in {50}}
TestSpawn(atTop) ==
    {[x |-> cx, sub |-> 0, y |-> cy, depth |-> d, vx |-> 0, vy |-> (speed * d) \div 100,
      age |-> 0, lifetime |-> 0] :
        cx \in {Width}, cy \in (IF atTop THEN {-10} ELSE {0, Height}),
        d \in {50, 80}, speed \in {50}}

SpawnChoices(sc, atTop) ==
    CASE sc = "snow" -> SnowSpawn(atTop)
      [] sc = "sparkles" -> SparkleSpawn
      [] sc = "test" -> TestSpawn(atTop)

\* What a frame draws for one particle: flow.x, flow.y, the wind direction and
\* the value of Math.sin.
Forces(sc) ==
    CASE sc = "snow" ->
             {[fx |-> d, fy |-> 0, wind |-> d, sn |-> d] : d \in Signs}
      [] sc = "sparkles" ->
             {[fx |-> d, fy |-> d, wind |-> 0, sn |-> 0] : d \in Signs}
      [] sc = "test" ->
             {[fx |-> d, fy |-> 0, wind |-> 0, sn |-> 0] : d \in Signs}

\* SnowSystem.update, lines 797-807 (wobbleAmount 30).  (variant: no fall)
SnowMovedNoFall(a, c, delta) ==
    LET vx == (c.fx * 20 * a.depth) \div 100 + (c.wind * 50 * a.depth) \div 100
        wobble == (c.sn * 30 * a.depth) \div 100
    IN  [a EXCEPT !.x = a.x + (vx + wobble) * delta]
SnowMoved(a, c, delta) ==
    LET vx == (c.fx * 20 * a.depth) \div 100 + (c.wind * 50 * a.depth) \div 100
        wobble == (c.sn * 30 * a.depth) \div 100
    IN  [a EXCEPT !.x = a.x + (vx + wobble) * delta,
                  !.y = a.y + a.vy * delta]
\* line 815  (variant: no test of the right margin)
SnowOutNoRight(a) == a.y > Height + 20 \/ a.x < -60
SnowOut(a) == a.y > Height + 20 \/ a.x < -60 \/ a.x > Width + 60

\* MagicSparkles.update, lines 119 and 147-148.  (variant: the age starts
\* again at every frame)
SparkleMovedAgeReset(a, c, delta) ==
    [a EXCEPT !.age = delta,
              !.x = a.x + (a.vx + c.fx * 15) * delta,
              !.y = a.y + (a.vy + c.fy * 10) * delta]
SparkleMoved(a, c, delta) ==
    [a EXCEPT !.age = a.age + delta,
              !.x = a.x + (a.vx + c.fx * 15) * delta,
              !.y = a.y + (a.vy + c.fy * 10) * delta]
\* line 154  (variant: no test of the age)
SparkleOutNoAge(a) ==
    \/ a.x < -20 \/ a.x > Width + 20
    \/ a.y < -20 \/ a.y > Height + 20
SparkleOut(a) ==
    \/ a.age > a.lifetime
    \/ a.x < -20 \/ a.x > Width + 20
    \/ a.y < -20 \/ a.y > Height + 20

\* TestScene.update, lines 100-105.  The drift of line 105, sin * 0.5 * depth,
\* is not scaled by delta and is below half a pixel: it is added to sub, in
\* SubDen-ths of a pixel, and the particle is at x + sub / SubDen.
TestMoved(a, c, delta) ==
    LET vx == (c.fx * 30 * a.depth) \div 100
    IN  [a EXCEPT !.x = a.x + vx * delta,
                  !.sub = a.sub + c.sn * a.depth,
                  !.y = a.y + a.vy * delta]
\* line 108
TestOut(a) ==
    \/ a.y > Height + 10
    \/ SubDen * a.x + a.sub < SubDen * (-20)
    \/ SubDen * a.x + a.sub > SubDen * (Width + 20)

Moved(sc, a, c, delta) ==
    CASE sc = "snow" -> SnowMoved(a, c, delta)
      [] sc = "sparkles" -> SparkleMoved(a, c, delta)
      [] sc = "test" -> TestMoved(a, c, delta)

Out(sc, a) ==
    CASE sc = "snow" -> SnowOut(a)
      [] sc = "sparkles" -> SparkleOut(a)
      [] sc = "test" -> TestOut(a)

\* Array.prototype.splice(idx, 1)
Splice(seq, idx) == SubSeq(seq, 1, idx - 1) \o SubSeq(seq, idx + 1, Len(seq))

\* Container.removeChild / addChild (a child is moved to the end).
\* (variant: addChild leaves the container as it is)
RemoveChild(ch, obj) == SelectSeq(ch, LAMBDA e : e # obj)
AddChildSkipped(ch, obj) == ch
AddChild(ch, obj) == Append(RemoveChild(ch, obj), obj)

\* children.sort((a, b) => (a.depth || 0) - (b.depth || 0)): stable.
InsertByDepth(sorted, e, a) ==
    LET k == Cardinality({j \in 1..Len(sorted) : a[sorted[j]].depth <= a[e].depth})
    IN  SubSeq(sorted, 1, k) \o <<e>> \o SubSeq(sorted, k + 1, Len(sorted))
RECURSIVE SortByDepthUpTo(_, _, _)
SortByDepthUpTo(seq, a, n) ==
    IF n = 0 THEN <<>>
    ELSE InsertByDepth(SortByDepthUpTo(seq, a, n - 1), seq[n], a)
SortByDepth(seq, a) == SortByDepthUpTo(seq, a, Len(seq))

\* The scene and its pool as one value.
Sys ==
    [pool |-> pool, active |-> active, nextId |-> nextId,
     particles |-> particles, children |-> children, attr |-> attr]

\* pool.release(p), without a reset.  (variant: the object is not pushed)
PoolReleaseNoPush(s, obj) ==
    IF ReleaseActs(s.active, obj)
    THEN [s EXCEPT !.active = SetDelete(s.active, obj)]
    ELSE s
PoolRelease(s, obj) ==
    IF ReleaseActs(s.active, obj)
    THEN [s EXCEPT !.active = SetDelete(s.active, obj), !.pool = Append(s.pool, obj)]
    ELSE s

\* spawnParticle: pool.acquire(initializer), particles.push, container.addChild.
\* (variant: the particle is put at the front of the live list)
SpawnParticleUnshift(s, init) ==
    LET obj == AcquireObj(s.pool, s.nextId)
    IN  [s EXCEPT !.pool = AcquirePool(s.pool),
                  !.nextId = AcquireNextId(s.pool, s.nextId),
                  !.active = SetAdd(s.active, obj),
                  !.attr = (obj :> init) @@ s.attr,
                  !.particles = <<obj>> \o s.particles,
                  !.children = AddChild(s.children, obj)]
SpawnParticle(s, init) ==
    LET obj == AcquireObj(s.pool, s.nextId)
    IN  [s EXCEPT !.pool = AcquirePool(s.pool),
                  !.nextId = AcquireNextId(s.pool, s.nextId),
                  !.active = SetAdd(s.active, obj),
                  !.attr = (obj :> init) @@ s.attr,
                  !.particles = Append(s.particles, obj),
                  !.children = AddChild(s.children, obj)]

\* The recycle branch of update up to pool.release: splice, removeChild, release.
\* (variant: the particle is left in the live list)
RecycleWithoutSplice(s, idx) ==
    LET p == s.particles[idx]
    IN  PoolRelease([s EXCEPT !.children = RemoveChild(s.children, p)], p)
RecycleParticle(s, idx) ==
    LET p == s.particles[idx]
    IN  PoolRelease([s EXCEPT !.particles = Splice(s.particles, idx),
                              !.children = RemoveChild(s.children, p)], p)

\* What update does after its loop: SnowSystem sorts the children by depth.
AfterLoop(sc, s) ==
    IF sc = "snow"
    THEN [s EXCEPT !.children = SortByDepth(s.children, s.attr)]
    ELSE s

RECURSIVE SpawnAll(_, _, _, _)
SpawnAll(s, f, k, n) ==
    IF k > n THEN s ELSE SpawnAll(SpawnParticle(s, f[k]), f, k + 1, n)

SetSys(s) ==
    /\ pool' = s.pool
    /\ active' = s.active
    /\ nextId' = s.nextId
    /\ particles' = s.particles
    /\ children' = s.children
    /\ attr' = s.attr

SceneInit ==
    /\ AppConstructed
    /\ NothingApplied
    /\ scene \in Scenes
    /\ particleCount \in 1..MaxParticles
    /\ stage = "constructed"
    /\ particles = <<>>
    /\ children = <<>>
    /\ attr = <<>>
    /\ loop = NoLoop
    /\ WindCalm
    /\ pool = <<>>
    /\ active = <<>>
    /\ nextId = 0
    /\ pc = "idle"
    /\ op = [name |-> "construct", obj |-> Foreign, cb |-> FALSE, idx |-> 0, count |-> 0]
    /\ pre = [pool |-> <<>>, active |-> <<>>, nextId |-> 0, total |-> 0]
    /\ calls = NoCalls
    /\ initialSize = 0
    /\ acquireRun = -1
    /\ disposedUpTo = 0

\* onAdd: new ObjectPool(factory, particleCount), then particleCount spawns
\* that are not at the top.
OnAdd ==
    /\ stage = "constructed"
    /\ \E f \in [1..particleCount -> SpawnChoices(scene, FALSE)] :
           SetSys(SpawnAll([pool |-> ConstructPool(particleCount),
                            active |-> <<>>,
                            nextId |-> particleCount,
                            particles |-> <<>>,
                            children |-> <<>>,
                            attr |-> [e \in 1..particleCount |-> Blank]],
                           f, 1, particleCount))
    /\ stage' = "added"
    /\ initialSize' = particleCount
    /\ UNCHANGED <<scene, particleCount, loop,
                   pc, op, pre, calls, acquireRun, disposedUpTo, otherVars, windVars>>

\* update(delta, elapsed) up to its loop.
UpdateBegin ==
    /\ stage = "added"
    /\ IF Len(particles) = 0
       THEN /\ stage' = "added"
            /\ SetSys(AfterLoop(scene, Sys))
            /\ UNCHANGED loop
       ELSE /\ stage' = "updating"
            /\ \E d \in Deltas :
                   loop' = [delta |-> d, i |-> Len(particles), start |-> particles,
                            visited |-> <<>>, spawned |-> {}]
            /\ UNCHANGED <<pool, active, nextId, particles, children, attr>>
    /\ UNCHANGED <<scene, particleCount, pc, op, pre, calls, initialSize,
                   acquireRun, disposedUpTo, otherVars, windVars>>

\* The end of a pass of update's loop: i counts down; after the pass for i = 1
\* update does what follows its loop and returns.
EndPass(s, l) ==
    /\ SetSys(IF l.i = 1 THEN AfterLoop(scene, s) ELSE s)
    /\ loop' = IF l.i = 1 THEN NoLoop ELSE [l EXCEPT !.i = @ - 1]
    /\ stage' = IF l.i = 1 THEN "added" ELSE "updating"

\* One pass of update's loop, for particles[i]: move it; if it is out, splice
\* it, remove it from the container and release it, which leaves the pass at
\* its call of spawnParticle.
UpdateStep ==
    /\ stage = "updating"
    /\ loop.i >= 1
    /\ \E c \in Forces(scene) :
           LET p == particles[loop.i]
               moved == Moved(scene, attr[p], c, loop.delta)
               s0 == [Sys EXCEPT !.attr = [attr EXCEPT ![p] = moved]]
               taken == [loop EXCEPT !.visited = Append(@, p)]
           IN  IF Out(scene, moved)
               THEN /\ SetSys(RecycleParticle(s0, loop.i))
                    /\ stage' = "recycling"
                    /\ loop' = taken
               ELSE EndPass(s0, taken)
    /\ UNCHANGED <<scene, particleCount, pc, op, pre, calls, initialSize,
                   acquireRun, disposedUpTo, otherVars, windVars>>

\* The rest of a recycling pass: spawnParticle(true) in SnowSystem and
\* TestScene, spawnParticle() in MagicSparkles.
Respawn ==
    /\ stage = "recycling"
    /\ \E init \in SpawnChoices(scene, TRUE) :
           EndPass(SpawnParticle(Sys, init),
                   [loop EXCEPT !.spawned = @ \cup {AcquireObj(pool, nextId)}])
    /\ UNCHANGED <<scene, particleCount, pc, op, pre, calls, initialSize,
                   acquireRun, disposedUpTo, otherVars, windVars>>

\* A caller moves a live snow particle to (width + 100, 0), outside the
\* margin of 60 (particles are display objects whose x and y are public).
PlaceParticle ==
    /\ stage = "added"
    /\ scene = "snow"
    /\ \A k \in 1..Len(particles) : attr[particles[k]].x # Width + 100
    /\ \E k \in 1..Len(particles) :
           attr' = [attr EXCEPT ![particles[k]].x = Width + 100,
                                ![particles[k]].y = 0]
    /\ UNCHANGED <<scene, stage, particleCount, particles, children, loop, poolVars,
                   otherVars, windVars>>

\* onDestroy: pool.dispose(p => p.destroy()), container.destroy({children: true}).
OnDestroy ==
    /\ stage = "added"
    /\ calls' = [e \in Objects |-> Times(DisposeOrder(pool, active), e)]
    /\ pool' = <<>>
    /\ active' = <<>>
    /\ disposedUpTo' = nextId
    /\ children' = <<>>
    /\ stage' = "destroyed"
    /\ UNCHANGED <<scene, particleCount, particles, attr, loop,
                   nextId, pc, op, pre, initialSize, acquireRun, otherVars, windVars>>

SceneNext ==
    \/ OnAdd
    \/ UpdateBegin
    \/ UpdateStep
    \/ Respawn
    \/ PlaceParticle
    \/ OnDestroy

SceneSpec == SceneInit /\ [][SceneNext]_vars

\* A scene of one or two particles that is added and then updated frame after
\* frame, every frame with a delta of at least MinDelta: the driver keeps
\* calling update and update runs to its end, so a step that can be taken is
\* taken.
MinDelta == 1

FramesInit == SceneInit /\ particleCount \in {1, 2}

PositiveFrame == UpdateBegin /\ loop'.delta >= MinDelta

FramesNext ==
    \/ OnAdd
    \/ PositiveFrame
    \/ UpdateStep
    \/ Respawn

FramesSpec == FramesInit /\ [][FramesNext]_vars /\ WF_vars(FramesNext)

\* ------------------------------------------------- the effect of one frame
\* The scenes above draw the wind direction of a pass as an input.  Here
\* update's first lines (SnowSystem, 773-781) are followed through the wind
\* fields themselves, and one pass of a loop is applied to one particle with
\* every force the frame can draw, the sine of the drift included.
\*
\* The wind direction and its target are counted in WindDen-ths, so that the
\* blend by delta * 0.5 is exact for as many halvings as WindBits; a blend
\* that would need a finer fraction is not taken.  The wind lines and the
\* passes do not read what the other writes (a pass is given its wind as a
\* force), so each is followed from the constructed state on its own.

\* Halvings the wind direction is followed through, the longest frame in
\* seconds, and the largest wind direction followed, in units of windStrength.
WindBits == 3
MaxWindDelta == 4
MaxWindRange == 3

WindDen == 2 ^ WindBits
WindDeltas == 0..MaxWindDelta

\* randomRange(-1, 1) * this.windStrength, with windStrength 1.
WindTargets == {-WindDen, 0, WindDen}

\* Every flow, wind and sine value a pass can be given.
FrameForces(sc) ==
    CASE sc = "snow" ->
             {[fx |-> f, fy |-> 0, wind |-> w, sn |-> n] :
                 f \in Signs, w \in Signs, n \in Signs}
      [] sc = "sparkles" ->
             {[fx |-> f, fy |-> g, wind |-> 0, sn |-> 0] : f \in Signs, g \in Signs}
      [] sc = "test" ->
             {[fx |-> f, fy |-> 0, wind |-> 0, sn |-> n] : f \in Signs, n \in Signs}

FrameInit ==
    /\ AppConstructed
    /\ NothingApplied
    /\ EngineIdle

\* SnowSystem.update, lines 773-781: the timer, the target, the blend.
UpdateWind ==
    /\ fn.name \in {"none", "wind"}
    /\ \E delta \in WindDeltas, r \in WindTargets :
           LET timer == windChangeTimer + delta
               target == IF timer > 3 THEN r ELSE targetWindDirection
               t == delta * 50
           IN  /\ ((target - windDirection) * t) % 100 = 0
               /\ windDirection' = Lerp(windDirection, target, t)
               /\ windDirection' \in (-MaxWindRange * WindDen)..(MaxWindRange * WindDen)
               /\ targetWindDirection' = target
               /\ windChangeTimer' = IF timer > 3 THEN 0 ELSE timer
               /\ fn' = [name |-> "wind", delta |-> delta,
                         direction |-> windDirection,
                         target |-> targetWindDirection,
                         timer |-> windChangeTimer]
    /\ ret' = 0
    /\ UNCHANGED <<scene, stage, particleCount, particles, children, attr, loop,
                   instances, poolVars, appVars>>

\* One pass of update's loop up to its test of the margins, on a particle as
\* spawnParticle makes it.
UpdatePass ==
    /\ fn.name \in {"none", "pass"}
    /\ \E sc \in Scenes, atTop \in BOOLEAN, delta \in Deltas :
           \E a \in SpawnChoices(sc, atTop), c \in FrameForces(sc) :
               /\ fn' = [name |-> "pass", scene |-> sc, delta |-> delta,
                         particle |-> a, forces |-> c]
               /\ ret' = Moved(sc, a, c, delta)
    /\ UNCHANGED <<instances, poolVars, sceneVars, appVars>>

FrameNext ==
    \/ UpdateWind
    \/ UpdatePass

FrameSpec == FrameInit /\ [][FrameNext]_vars

\* =============================================================== the App
\* App (part_002) keeps the attached scenes in `scenes`, adds one callback to
\* the ticker for each start that finds the app not running, and listens to
\* the window's resize.  A scene here is an object with onAdd, update, onResize
\* and onDestroy (the particle scenes above define no onRemove); what is kept
\* of it is which of its methods the App calls, and how often.

\* Most callbacks start is let add to the ticker, the value elapsed is
\* followed up to, and the most times one scene is attached.
MaxListeners == 2
MaxElapsed == 2
MaxAdds == 1

\* Array.prototype.indexOf, 1-based; 0 when absent.
IndexOf(seq, e) ==
    IF e \in Range(seq) THEN CHOOSE i \in 1..Len(seq) :
                                 seq[i] = e /\ \A j \in 1..(i - 1) : seq[j] # e
    ELSE 0

\* The calls `for (const scene of this.scenes)` makes when its body runs n times.
CallsEach(sc, n) == [s \in SceneIds |-> n * Times(sc, s)]

\* destroy, line 205: this.scenes afterwards.  (variant: the list is kept)
DestroyScenesKept(sc) == sc
DestroyScenes(sc) == <<>>

\* clearTimeout(id); clearInterval(id) for every id of a set: the host's table
\* afterwards.  (variant: clearInterval is left out and the host keeps an
\* interval that only clearTimeout was called on)
ClearTimeoutsOnly(p, ids) ==
    [id \in TimerIds |-> IF id \in ids /\ p[id] = "timeout" THEN "none" ELSE p[id]]
ClearAll(p, ids) == [id \in TimerIds |-> IF id \in ids THEN "none" ELSE p[id]]

AppInit ==
    /\ AppConstructed
    /\ NothingApplied
    /\ EngineIdle

AppStep(name) ==
    /\ frame' = [NoFrame EXCEPT !.name = name]
    /\ UNCHANGED <<poolVars, sceneVars, pureVars>>

\* A handler that leaves the timers alone.
SceneStep(name) ==
    /\ AppStep(name)
    /\ UNCHANGED <<timerVars, singletonVars>>

\* addScene(scene): lines 114-115.
AddScene ==
    \E s \in SceneIds :
        /\ Len(scenes) < MaxScenes
        /\ hooks[s].onAdd < MaxAdds
        /\ scenes' = Append(scenes, s)
        /\ hooks' = [hooks EXCEPT ![s].onAdd = @ + 1]
        /\ torn' = torn \ {s}
        /\ SceneStep("addScene")
        /\ UNCHANGED <<isRunning, listeners, tickerStarted, elapsed, destroyed>>

\* removeScene(scene): lines 123-127.  scene.onRemove?.(this) calls nothing: no
\* scene defines onRemove.
RemoveScene ==
    \E s \in SceneIds :
        LET idx == IndexOf(scenes, s) IN
        /\ scenes' = IF idx # 0 THEN Splice(scenes, idx) ELSE scenes
        /\ SceneStep("removeScene")
        /\ UNCHANGED <<isRunning, listeners, tickerStarted, elapsed, destroyed,
                       hooks, torn>>

\* start(): lines 135-146.  ticker.add starts a ticker whose autoStart is set
\* and leaves any other as it is; which of the two app.ticker is is Pixi's.
Start ==
    /\ IF isRunning
       THEN UNCHANGED <<isRunning, listeners, tickerStarted>>
       ELSE /\ listeners < MaxListeners
            /\ isRunning' = TRUE
            /\ listeners' = listeners + 1
            /\ tickerStarted' \in {tickerStarted, TRUE}
    /\ SceneStep("start")
    /\ UNCHANGED <<scenes, elapsed, destroyed, hooks, torn>>

\* stop(): lines 155-156.
Stop ==
    /\ isRunning' = FALSE
    /\ tickerStarted' = FALSE
    /\ SceneStep("stop")
    /\ UNCHANGED <<scenes, listeners, elapsed, destroyed, hooks, torn>>

\* A tick of the ticker: every callback start added runs lines 139-145.
Tick ==
    /\ tickerStarted
    /\ \E d \in Deltas :
           /\ elapsed + listeners * d <= MaxElapsed
           /\ elapsed' = elapsed + listeners * d
           /\ frame' = [name |-> "tick", delta |-> d, before |-> elapsed,
                        update |-> CallsEach(scenes, listeners),
                        onResize |-> NoSceneCalls, timer |-> 0, cleared |-> {}]
    /\ UNCHANGED <<scenes, isRunning, listeners, tickerStarted, destroyed, hooks, torn,
                   timerVars, singletonVars>>
    /\ UNCHANGED <<poolVars, sceneVars, pureVars>>

\* A resize of the window: the listener of lines 86-89, which nothing removes.
Resize ==
    /\ frame' = [NoFrame EXCEPT !.name = "resize", !.onResize = CallsEach(scenes, 1)]
    /\ UNCHANGED <<scenes, isRunning, listeners, tickerStarted, elapsed, destroyed,
                   hooks, torn, timerVars, singletonVars>>
    /\ UNCHANGED <<poolVars, sceneVars, pureVars>>

\* setTimeout(fn, delay), lines 164-169: the host hands out the next id.
SetTimeout ==
    /\ nextTimer < MaxTimers
    /\ nextTimer' = nextTimer + 1
    /\ pending' = [pending EXCEPT ![nextTimer + 1] = "timeout"]
    /\ timers' = timers \cup {nextTimer + 1}
    /\ AppStep("setTimeout")
    /\ UNCHANGED <<scenes, isRunning, listeners, tickerStarted, elapsed, destroyed,
                   hooks, torn, clearedUpTo, singletonVars>>

\* setInterval(fn, delay), lines 176-178.
SetInterval ==
    /\ nextTimer < MaxTimers
    /\ nextTimer' = nextTimer + 1
    /\ pending' = [pending EXCEPT ![nextTimer + 1] = "interval"]
    /\ timers' = timers \cup {nextTimer + 1}
    /\ AppStep("setInterval")
    /\ UNCHANGED <<scenes, isRunning, listeners, tickerStarted, elapsed, destroyed,
                   hooks, torn, clearedUpTo, singletonVars>>

\* clearTimer(id), lines 185-187, with any id the caller holds.
ClearTimer ==
    /\ \E id \in 1..nextTimer :
           /\ pending' = ClearAll(pending, {id})
           /\ timers' = timers \ {id}
    /\ AppStep("clearTimer")
    /\ UNCHANGED <<scenes, isRunning, listeners, tickerStarted, elapsed, destroyed,
                   hooks, torn, nextTimer, clearedUpTo, singletonVars>>

\* The host fires a timer it holds.  A timeout is gone from the host's table
\* and its wrapper deletes the id (line 165) before fn runs; an interval stays
\* and its callback is fn itself.
FireTimer ==
    /\ \E id \in TimerIds :
           /\ pending[id] # "none"
           /\ IF pending[id] = "timeout"
              THEN /\ pending' = [pending EXCEPT ![id] = "none"]
                   /\ timers' = timers \ {id}
              ELSE UNCHANGED <<pending, timers>>
           /\ frame' = [NoFrame EXCEPT !.name = "fire", !.timer = id]
    /\ UNCHANGED <<scenes, isRunning, listeners, tickerStarted, elapsed, destroyed,
                   hooks, torn, nextTimer, clearedUpTo, singletonVars>>
    /\ UNCHANGED <<poolVars, sceneVars, pureVars>>

\* destroy(): lines 195-208.
Destroy ==
    /\ pending' = ClearAll(pending, timers)
    /\ timers' = {}
    /\ clearedUpTo' = nextTimer
    /\ UNCHANGED nextTimer
    /\ hooks' = [s \in SceneIds |->
                    [hooks[s] EXCEPT !.onDestroy = @ + Times(scenes, s)]]
    /\ torn' = torn \cup Range(scenes)
    /\ scenes' = DestroyScenes(scenes)
    /\ destroyed' = TRUE
    /\ frame' = [NoFrame EXCEPT !.name = "destroy", !.cleared = timers]
    /\ UNCHANGED <<poolVars, sceneVars, pureVars>>
    /\ UNCHANGED <<isRunning, listeners, tickerStarted, elapsed, singletonVars>>

AppNext ==
    \/ AddScene
    \/ RemoveScene
    \/ Start
    \/ Stop
    \/ Tick
    \/ Resize
    \/ Destroy

AppSpec == AppInit /\ [][AppNext]_vars

\* The App's timers alone: scheduling, clearing, firing and destroy.
TimerNext ==
    \/ SetTimeout
    \/ SetInterval
    \/ ClearTimer
    \/ FireTimer
    \/ Destroy

TimerSpec == AppInit /\ [][TimerNext]_vars

\* ------------------------------------------------------------- createApp
\* createApp (lines 215-222) is an async function: it runs to its await of
\* init, and from there when the init it started has settled; other calls can
\* run in between.  An App is followed by how far it has got: "none" (not
\* created), "initialising" (init has not settled), "ready", "destroyed"
\* (destroy has run to its end).
\*
\* Application.destroy and Application.init are Pixi's.  What destroy does on
\* an Application whose init has not settled, and what the rest of init does
\* on one that was destroyed meanwhile, is not this code's to decide: each
\* either completes or throws.  An init can fail on its own as well.

\* getApp(), line 225.
GetApp == instance

\* instance.destroy() of line 217, on App a: the statuses afterwards when it
\* completes.  (variant: the App is replaced without being destroyed)
DestroyedSkipped(st, a) == st
Destroyed(st, a) == [st EXCEPT ![a] = "destroyed"]

\* createApp up to its await: lines 216-220 and init up to line 38.
CreateAppBegin ==
    /\ \E c \in CallIds :
           /\ call[c].pc = "idle"
           /\ \A b \in 1..(c - 1) : call[b].pc # "idle"
           /\ \E throws \in BOOLEAN :
                  IF instance # NoApp /\ throws
                  THEN /\ appStatus[instance] = "initialising"
                       /\ call' = [call EXCEPT ![c].pc = "rejected"]
                       /\ UNCHANGED <<instance, appStatus>>
                  ELSE /\ ~throws
                       /\ appStatus' =
                              [(IF instance # NoApp
                                THEN Destroyed(appStatus, instance)
                                ELSE appStatus) EXCEPT ![c] = "initialising"]
                       /\ instance' = c
                       /\ call' = [call EXCEPT ![c].pc = "awaiting"]
    /\ frame' = [NoFrame EXCEPT !.name = "createApp"]
    /\ UNCHANGED <<scenes, isRunning, listeners, tickerStarted, elapsed, destroyed,
                   hooks, torn, timerVars>>
    /\ UNCHANGED <<poolVars, sceneVars, pureVars>>

\* createApp from its await on: the rest of init (lines 48-59) on the App the
\* call created, then `return instance` (line 221).
CreateAppResume ==
    /\ \E c \in CallIds :
           /\ call[c].pc = "awaiting"
           /\ \E throws \in BOOLEAN :
                  IF throws
                  THEN /\ call' = [call EXCEPT ![c].pc = "rejected"]
                       /\ UNCHANGED appStatus
                  ELSE /\ appStatus' =
                              IF appStatus[c] = "initialising"
                              THEN [appStatus EXCEPT ![c] = "ready"]
                              ELSE appStatus
                       /\ call' = [call EXCEPT ![c] = [pc |-> "returned", ret |-> instance]]
    /\ frame' = [NoFrame EXCEPT !.name = "createApp"]
    /\ UNCHANGED <<scenes, isRunning, listeners, tickerStarted, elapsed, destroyed,
                   hooks, torn, timerVars, instance>>
    /\ UNCHANGED <<poolVars, sceneVars, pureVars>>

CreateNext ==
    \/ CreateAppBegin
    \/ CreateAppResume

CreateSpec == AppInit /\ [][CreateNext]_vars

\* ============================================================= the Noise
\* Noise (part_000 207-312) wraps the simplex-noise package: the constructor
\* builds one noise function per dimension from a random source, which is the
\* constant function () => seed when seed is truthy and Math.random otherwise.
\* The package shuffles a permutation table with the draws of that source and
\* hashes lattice coordinates through it.  Here the table has TableSize
\* entries, a draw is a number of quarters (2 is 0.5), coordinates are
\* integers and a single-octave sample is -1, 0 or 1.

\* Entries of a permutation table, and the denominator of a draw.
TableSize == 3
RandDen == 4

\* Largest seed passed to the constructor (in quarters: 4 is the seed 1),
\* largest coordinate or time queried, largest octaves.
MaxSeed == 4
MaxCoord == 1
MaxOctaves == 8

Seeds == 0..MaxSeed
\* The values Math.random is taken to return.
RandomDraws == {0, 3}
DrawSeqs == [1..(TableSize - 1) -> RandomDraws]

\* constructor, line 210: the draws of `seed ? () => seed : undefined`, where
\* undefined makes the package use Math.random.
SeedFn(seed, draws) ==
    IF seed # 0 THEN [i \in 1..(TableSize - 1) |-> seed] ELSE draws

\* The package's table: p[i] = i, then for i = 0 .. n - 2 swap p[i] with
\* p[i + floor(random() * (n - i))]; a read past the table gives 0.  Tables
\* are sequences, so entry i is p[i + 1].
RECURSIVE Shuffle(_, _, _)
Shuffle(p, draws, i) ==
    IF i > TableSize - 2 THEN p
    ELSE LET r == i + (draws[i + 1] * (TableSize - i)) \div RandDen
             q == IF r < TableSize
                  THEN [p EXCEPT ![i + 1] = p[r + 1], ![r + 1] = p[i + 1]]
                  ELSE [p EXCEPT ![i + 1] = 0]
         IN  Shuffle(q, draws, i + 1)
BuildPermutationTable(draws) == Shuffle([i \in 1..TableSize |-> i - 1], draws, 0)

\* A single-octave sample at a lattice point: the table's hash of the
\* coordinates, as -1, 0 or 1.
Perm(p, k) == p[(k % TableSize) + 1]
Noise2D(p, x, y) == (Perm(p, x + Perm(p, y)) % 3) - 1
Noise3D(p, x, y, z) == (Perm(p, x + Perm(p, y + Perm(p, z))) % 3) - 1

\* new Noise(seed), lines 208-213 (noise4D, which fbm and flowField do not
\* use, is left out).
NewNoise(seed, d2, d3) ==
    [seed |-> seed,
     noise2D |-> BuildPermutationTable(SeedFn(seed, d2)),
     noise3D |-> BuildPermutationTable(SeedFn(seed, d3))]

\* 2 to the k.
RECURSIVE Pow2(_)
Pow2(k) == IF k = 0 THEN 1 ELSE 2 * Pow2(k - 1)

\* fbm, lines 259 and 278: maxValue += amplitude.
\* (variant: only the first octave's amplitude is counted)
FbmMaxFirstOnly(maxValue, amplitude) == IF maxValue = 0 THEN amplitude ELSE maxValue
FbmMax(maxValue, amplitude) == maxValue + amplitude

\* fbm, lines 264 and 283: value / maxValue, kept as a fraction.
Ratio(value, maxValue) == [num |-> value, den |-> maxValue]

\* One pass of the loop of fbm2D / fbm3D, lines 258-261 and 277-280, given
\* the pass's sample.  persistence is a number of halves; amplitudes are kept
\* as multiples of 2^-(octaves - 1), which makes every one an integer;
\* lacunarity is 2.
FbmPass(st, sample, persistence) ==
    [value     |-> st.value + st.amplitude * sample,
     maxValue  |-> FbmMax(st.maxValue, st.amplitude),
     amplitude |-> (st.amplitude * persistence) \div 2,
     frequency |-> st.frequency * 2]
FbmStart(octaves, scale) ==
    [value |-> 0, maxValue |-> 0, amplitude |-> Pow2(octaves - 1), frequency |-> scale]

\* fbm2D(x, y, {octaves, persistence, scale}), lines 251-265.
RECURSIVE Fbm2DLoop(_, _, _, _, _, _, _)
Fbm2DLoop(p, x, y, i, octaves, persistence, st) ==
    IF i >= octaves THEN st
    ELSE Fbm2DLoop(p, x, y, i + 1, octaves, persistence,
                   FbmPass(st, Noise2D(p, x * st.frequency, y * st.frequency),
                           persistence))
Fbm2D(p, x, y, octaves, persistence, scale) ==
    LET st == Fbm2DLoop(p, x, y, 0, octaves, persistence, FbmStart(octaves, scale))
    IN  Ratio(st.value, st.maxValue)

\* fbm3D(x, y, z, {octaves, persistence, scale}), lines 270-284.
RECURSIVE Fbm3DLoop(_, _, _, _, _, _, _, _)
Fbm3DLoop(p, x, y, z, i, octaves, persistence, st) ==
    IF i >= octaves THEN st
    ELSE Fbm3DLoop(p, x, y, z, i + 1, octaves, persistence,
                   FbmPass(st, Noise3D(p, x * st.frequency, y * st.frequency,
                                       z * st.frequency),
                           persistence))
Fbm3D(p, x, y, z, octaves, persistence, scale) ==
    LET st == Fbm3DLoop(p, x, y, z, 0, octaves, persistence, FbmStart(octaves, scale))
    IN  Ratio(st.value, st.maxValue)

\* flowField(x, y, time, scale, timeScale), lines 295-301: two fbm3D samples
\* with the default octaves 4, persistence 0.5 and scale 1.
FlowField(inst, x, y, time, scale, timeScale) ==
    LET t == time * timeScale
    IN  [x |-> Fbm3D(inst.noise3D, x * scale, y * scale, t, 4, 1, 1),
         y |-> Fbm3D(inst.noise3D, x * scale + 100, y * scale + 100, t, 4, 1, 1)]

Coords == 0..MaxCoord
\* persistence 0, 0.5 and 1, in halves.
Persistences == {0, 1, 2}

NoiseInit ==
    /\ AppConstructed
    /\ NothingApplied
    /\ EngineIdle

\* new Noise(seed): a first and a second instance, before any query.  d2 and
\* d3 are what Math.random returns while the tables are built; a seeded
\* constructor does not call it.
Construct ==
    /\ Len(instances) < 2
    /\ fn.name \in {"none", "Noise"}
    /\ \E seed \in Seeds, d2 \in DrawSeqs, d3 \in DrawSeqs :
           /\ seed # 0 => d2 = [i \in 1..(TableSize - 1) |-> 0] /\ d3 = d2
           /\ instances' = Append(instances, NewNoise(seed, d2, d3))
           /\ fn' = [name |-> "Noise", seed |-> seed]
    /\ ret' = 0
    /\ UNCHANGED <<poolVars, sceneVars, appVars>>

\* flowField with the same arguments on both instances, once they are built.
QueryFlowField ==
    /\ Len(instances) = 2
    /\ fn.name = "Noise"
    /\ \E x \in Coords, y \in Coords, time \in Coords, scale \in {1, 2} :
           /\ fn' = [name |-> "flowField", x |-> x, y |-> y, time |-> time,
                     scale |-> scale]
           /\ ret' = <<FlowField(instances[1], x, y, time, scale, 1),
                       FlowField(instances[2], x, y, time, scale, 1)>>
    /\ UNCHANGED <<instances, poolVars, sceneVars, appVars>>

\* fbm2D on the first instance, once it is built.
QueryFbm2D ==
    /\ Len(instances) = 1
    /\ fn.name = "Noise"
    /\ \E x \in Coords, y \in Coords, octaves \in 1..MaxOctaves,
          persistence \in Persistences :
           /\ fn' = [name |-> "fbm2D", x |-> x, y |-> y, octaves |-> octaves,
                     persistence |-> persistence]
           /\ ret' = Fbm2D(instances[1].noise2D, x, y, octaves, persistence, 1)
    /\ UNCHANGED <<instances, poolVars, sceneVars, appVars>>

\* fbm3D on the first instance, once it is built.
QueryFbm3D ==
    /\ Len(instances) = 1
    /\ fn.name = "Noise"
    /\ \E x \in Coords, y \in Coords, z \in Coords, octaves \in 1..MaxOctaves,
          persistence \in Persistences :
           /\ fn' = [name |-> "fbm3D", x |-> x, y |-> y, z |-> z,
                     octaves |-> octaves, persistence |-> persistence]
           /\ ret' = Fbm3D(instances[1].noise3D, x, y, z, octaves, persistence, 1)
    /\ UNCHANGED <<instances, poolVars, sceneVars, appVars>>

NoiseNext ==
    \/ Construct
    \/ QueryFlowField
    \/ QueryFbm2D
    \/ QueryFbm3D

NoiseSpec == NoiseInit /\ [][NoiseNext]_vars

\* ===================================================== the weighted pickers
\* randomPick (math.js 53-65) and pickFromPalette (part_000 190-199).  Weights
\* and the draw of Math.random are numbers of tenths; a draw is below 1.

\* Largest single weight, in tenths.
MaxWeight == 5

Draws == 0..9
\* The items of a pick: a palette's dominant, secondary and accent colour, or
\* the first n entries of an array.
Colors == <<"dominant", "secondary", "accent">>
WeightsOf(n) == [1..n -> 0..MaxWeight]

\* The loop of both pickers from index i on (lines 60-63, 194-197): the first
\* i with r <= sum, or 0 when the loop runs out.
RECURSIVE PickLoop(_, _, _, _, _)
PickLoop(weights, r, i, sum, n) ==
    IF i > n THEN 0
    ELSE IF r <= sum + weights[i] THEN i
         ELSE PickLoop(weights, r, i + 1, sum + weights[i], n)

\* What the pickers return when the loop runs out: line 64, items[items.length - 1],
\* and line 198, colors[0].
RandomPickFallback(items) == items[Len(items)]
PaletteFallback(colors) == colors[1]

\* randomPick(items, weights); without weights items[randomInt(0, length - 1)].
RandomPick(items, weighted, weights, r) ==
    IF ~weighted THEN items[((r * Len(items)) \div 10) + 1]
    ELSE LET i == PickLoop(weights, r, 1, 0, Len(items))
         IN  IF i # 0 THEN items[i] ELSE RandomPickFallback(items)

\* pickFromPalette(palette)
PickFromPalette(palette, r) ==
    LET colors == <<palette.dominant, palette.secondary, palette.accent>>
        i == PickLoop(palette.weights, r, 1, 0, Len(colors))
    IN  IF i # 0 THEN colors[i] ELSE PaletteFallback(colors)

PickInit ==
    /\ AppConstructed
    /\ NothingApplied
    /\ EngineIdle

\* One call of randomPick.
ApplyRandomPick ==
    /\ fn.name = "none"
    /\ \E n \in 1..3, weighted \in BOOLEAN, r \in Draws :
           \E weights \in WeightsOf(n) :
               /\ ~weighted => \A i \in 1..n : weights[i] = 0
               /\ fn' = [name |-> "randomPick", items |-> SubSeq(Colors, 1, n),
                         weighted |-> weighted, weights |-> weights, r |-> r]
               /\ ret' = RandomPick(SubSeq(Colors, 1, n), weighted, weights, r)
    /\ UNCHANGED <<instances, poolVars, sceneVars, appVars>>

\* One call of pickFromPalette.
ApplyPickFromPalette ==
    /\ fn.name = "none"
    /\ \E weights \in WeightsOf(3), r \in Draws :
           /\ fn' = [name |-> "pickFromPalette", items |-> Colors,
                     weighted |-> TRUE, weights |-> weights, r |-> r]
           /\ ret' = PickFromPalette([dominant |-> Colors[1], secondary |-> Colors[2],
                                      accent |-> Colors[3], weights |-> weights], r)
    /\ UNCHANGED <<instances, poolVars, sceneVars, appVars>>

PickNext ==
    \/ ApplyRandomPick
    \/ ApplyPickFromPalette

PickSpec == PickInit /\ [][PickNext]_vars

\* ================================================================ claims
Size(a) == Cardinality(Range(a))
Held(p, a) == Range(p) \cup Range(a)

\* C1: at every observation point (between operations and inside every
\* callback) the stats getter reports available = length of the free list,
\* active = size of the active set, and available + active = total.
PoolConservation ==
    /\ Stats.available = Len(pool)
    /\ Stats.active = Size(active)
    /\ Stats.available + Stats.active = Stats.total
\* stats read inside release's reset callback, with free and active objects around.
PoolConservationWitness ==
    pc = "release_reset" /\ Len(pool) > 0 /\ Len(active) > 0

\* C2: comparing total when an operation is called with total when it has
\* returned: construction gives initialSize; expand(count) adds exactly count
\* and leaves the active set alone; acquire adds 1 exactly when the free list
\* was empty; release and releaseAll add nothing; only dispose lowers it.
PoolTotalChanges ==
    pc = "idle" =>
        /\ op.name = "construct" => Stats.total = initialSize
        /\ op.name = "expand" =>
               Stats.total = pre.total + op.count /\ active = pre.active
        /\ op.name = "acquire" =>
               Stats.total = pre.total + (IF Len(pre.pool) = 0 THEN 1 ELSE 0)
        /\ op.name \in {"release", "releaseAll"} => Stats.total = pre.total
        /\ op.name # "dispose" => Stats.total >= pre.total
\* expand(2) has returned on a pool that had active objects.
PoolTotalChangesWitness ==
    pc = "idle" /\ op.name = "expand" /\ op.count = 2 /\ Len(pre.active) > 0

\* C3: every entity the factory made (and dispose has not dropped) is in
\* exactly one of the free list and the active set, once, at every observation
\* point, the callbacks of acquire, release and releaseAll included.
PoolPartitionEverywhere ==
    \A e \in (disposedUpTo + 1)..nextId :
        Times(pool, e) + (IF SetHas(active, e) THEN 1 ELSE 0) = 1

\* C4: release of an object that is not active returns at once: free list,
\* active set and stats are as before and reset is not called.
ReleaseInactiveNoOp ==
    (op.name = "release" /\ ~SetHas(pre.active, op.obj)) =>
        /\ pc = "idle"
        /\ pool = pre.pool
        /\ active = pre.active
        /\ Stats.total = pre.total
        /\ calls = NoCalls
\* release(e, reset) of an entity that is already in the free list.
ReleaseInactiveNoOpWitness ==
    /\ op.name = "release" /\ op.cb /\ pc = "idle"
    /\ op.obj \in Range(pre.pool)
    /\ Len(pre.active) > 0

\* C5: acquire is always possible; on an empty free list it returns the
\* factory's next object, active; and initialSize 2 followed by three acquires
\* and nothing else gives available 0, active 3, total 3.
AcquireNeverFails ==
    /\ (pc = "idle" /\ AcquireNextId(pool, nextId) <= MaxEntities) => ENABLED Acquire
    /\ op.name = "acquire" =>
           /\ SetHas(active, op.obj)
           /\ Len(pre.pool) = 0 =>
                  /\ op.obj = pre.nextId + 1
                  /\ nextId = pre.nextId + 1
                  /\ op.obj \notin Held(pre.pool, pre.active)
    /\ (pc = "idle" /\ initialSize = 2 /\ acquireRun = 3) =>
           Stats = [available |-> 0, active |-> 3, total |-> 3]
\* the scenario: a pool of 2, acquired from three times.
AcquireNeverFailsWitness ==
    pc = "idle" /\ initialSize = 2 /\ acquireRun = 3

\* C6: the object acquire returns was not active when acquire was called.
AcquireNotShared ==
    op.name = "acquire" => ~SetHas(pre.active, op.obj)
\* acquire that reuses a free object while other objects are active.
AcquireNotSharedWitness ==
    /\ op.name = "acquire" /\ pc = "idle"
    /\ Len(pre.pool) > 0 /\ Len(pre.active) > 0
    /\ op.obj < pre.nextId

\* C7: release of an active object takes it, and nothing else, out of the
\* active set; reset is given it once, while it is not yet in the free list;
\* then it is pushed: active is one less and available one more.
ReleaseMovesOne ==
    (op.name = "release" /\ SetHas(pre.active, op.obj)) =>
        /\ active = SetDelete(pre.active, op.obj)
        /\ Stats.active = Size(pre.active) - 1
        /\ calls = (IF op.cb THEN Called(NoCalls, op.obj) ELSE NoCalls)
        /\ pc \in {"release_reset", "idle"}
        /\ pc = "release_reset" => op.cb /\ pool = pre.pool
        /\ pc = "idle" =>
               /\ pool = Append(pre.pool, op.obj)
               /\ Stats.available = Len(pre.pool) + 1
\* release(e, reset) has returned; e was one of two active objects.
ReleaseMovesOneWitness ==
    /\ op.name = "release" /\ op.cb /\ pc = "idle"
    /\ SetHas(pre.active, op.obj)
    /\ Len(pre.active) > 1 /\ Len(pre.pool) > 0

\* C8: when releaseAll has returned the active set is empty, available is the
\* total from before, every formerly active object is once in the free list,
\* and reset was given each of them once and no other object.
ReleaseAllReleasesAll ==
    (op.name = "releaseAll" /\ pc = "idle") =>
        /\ active = <<>>
        /\ Stats.active = 0
        /\ Stats.available = pre.total
        /\ \A e \in Range(pre.active) : Times(pool, e) = 1
        /\ \A e \in Range(pre.pool) : Times(pool, e) = 1
        /\ op.cb => \A e \in Objects :
                        calls[e] = (IF e \in Range(pre.active) THEN 1 ELSE 0)
\* releaseAll(reset) has returned; two objects were active and one free.
ReleaseAllReleasesAllWitness ==
    /\ op.name = "releaseAll" /\ op.cb /\ pc = "idle"
    /\ Len(pre.active) > 1 /\ Len(pre.pool) > 0

\* C9: when dispose(cleanup) has returned cleanup was given every object the
\* pool held, free or active, once, and both collections are empty.
DisposeCleansAll ==
    (op.name = "dispose" /\ pc = "idle") =>
        /\ pool = <<>>
        /\ active = <<>>
        /\ Stats = [available |-> 0, active |-> 0, total |-> 0]
        /\ op.cb => \A e \in Objects :
                        calls[e] = (IF e \in Held(pre.pool, pre.active) THEN 1 ELSE 0)
\* dispose(cleanup) has returned on a pool that held free and active objects.
DisposeCleansAllWitness ==
    /\ op.name = "dispose" /\ op.cb /\ pc = "idle"
    /\ Len(pre.pool) > 0 /\ Len(pre.active) > 0

\* C10: whenever onAdd or an update of a SnowSystem, MagicSparkles or TestScene
\* has returned, the live list holds exactly particleCount particles and the
\* pool's active count is particleCount.
ParticleCountInvariant ==
    stage = "added" =>
        /\ Len(particles) = particleCount
        /\ Stats.active = particleCount
\* an update of a SnowSystem has returned and two of its live particles are
\* where only a recycle puts them: at the top, above the screen.
ParticleCountInvariantWitness ==
    /\ stage = "added" /\ scene = "snow" /\ particleCount >= 2
    /\ \A k \in 1..Len(particles) : attr[particles[k]].y < 0

\* The visible domain: the screen.
Visible(a) == a.x >= 0 /\ a.x <= Width /\ a.y >= 0 /\ a.y <= Height
\* A live snow particle at (width + 100, 0) is the one the running pass is for.
AtBoundaryExit ==
    /\ scene = "snow" /\ stage = "updating" /\ loop.i >= 1
    /\ attr[particles[loop.i]].x = Width + 100
    /\ attr[particles[loop.i]].y = 0
\* The particle the running pass has released.
Released == pool[Len(pool)]

\* C11 as stated: a live snow particle at (width + 100, 0) is recycled by the
\* next update (its pass splices and releases it), whatever the frame.
RecycleOnBoundaryExitAlways ==
    [][AtBoundaryExit => stage' = "recycling"]_vars
\* C11 as amended: the pass of the next update moves the particle first; it is
\* recycled (spliced from the live list, released to the free list) exactly
\* when its moved position is still beyond the margin, which it is whenever
\* the frame moves it less than 40 px (delta = 0 included); and when the update
\* has returned the live count is particleCount either way.
RecycleOnBoundaryExit ==
    [][/\ AtBoundaryExit =>
              LET p == particles[loop.i] IN
              /\ stage' = "recycling" <=> SnowOut(attr'[p])
              /\ (attr'[p].x - attr[p].x > -40 /\ attr'[p].x - attr[p].x < 40)
                     => stage' = "recycling"
              /\ stage' = "recycling" =>
                     /\ p \notin Range(particles')
                     /\ ~SetHas(active', p)
                     /\ Times(pool', p) = 1
       /\ stage' = "added" => Len(particles') = particleCount]_vars
\* the placed particle has just been released by a frame of one second that
\* pushed it further out.
RecycleOnBoundaryExitWitness ==
    /\ scene = "snow" /\ stage = "recycling" /\ loop.delta = 1
    /\ attr[Released].x > Width + 100
    /\ attr[Released].y = attr[Released].vy

\* What every scene does when it recycles: the particle was released before
\* the spawn (it is free, not active, not live), and the spawn is one acquire
\* that takes it from the free list, without a call of the factory.
ReleaseThenOneSpawn ==
    stage = "recycling" =>
        /\ Len(pool) = 1
        /\ ~SetHas(active, Released)
        /\ Released \notin Range(particles)
        /\ Len(particles) = particleCount - 1
        /\ Len(particles') = particleCount
        /\ particles' = Append(particles, Released)
        /\ SetHas(active', Released)
        /\ pool' = <<>>
        /\ nextId' = nextId
\* The replacement the pass has spawned.
Replacement == attr'[particles'[Len(particles')]]

\* C12 as stated: in all three scenes the replacement is spawned at an edge of
\* the domain, never at a position inside the visible domain.
RespawnAtEdgeAlways ==
    [][/\ ReleaseThenOneSpawn
       /\ stage = "recycling" => ~Visible(Replacement)]_vars
\* C12 as amended: every recycle releases first and then spawns one
\* replacement; SnowSystem and TestScene put it above the top edge (y < 0),
\* MagicSparkles, whose spawnParticle has no atEdge, anywhere in x in
\* [0, width], y in [0, 0.8 height], inside the visible domain.
RespawnAtEdge ==
    [][/\ ReleaseThenOneSpawn
       /\ (stage = "recycling" /\ scene \in {"snow", "test"}) =>
              Replacement.y < 0 /\ ~Visible(Replacement)
       /\ (stage = "recycling" /\ scene = "sparkles") =>
              /\ Replacement.x >= 0 /\ Replacement.x <= Width
              /\ Replacement.y >= 0 /\ 10 * Replacement.y <= 8 * Height]_vars
\* a TestScene has released a particle that left through the side margin.
RespawnAtEdgeWitness ==
    /\ scene = "test" /\ stage = "recycling"
    /\ attr[Released].x > Width + 20
    /\ attr[Released].y <= Height + 10

\* C13: a sparkle whose age has passed its lifetime is recycled by the pass
\* that incremented the age; a replacement starts with age < lifetime; so when
\* an update has returned, and for every particle an update has already
\* passed, age <= lifetime.
SparkleAgeBounded ==
    scene = "sparkles" =>
        /\ \A a \in SparkleSpawn : a.age < a.lifetime
        /\ stage = "added" =>
               \A k \in 1..Len(particles) :
                   attr[particles[k]].age <= attr[particles[k]].lifetime
        /\ stage = "updating" =>
               \A k \in (loop.i + 1)..Len(particles) :
                   attr[particles[k]].age <= attr[particles[k]].lifetime
        /\ stage = "recycling" =>
               \A k \in loop.i..Len(particles) :
                   attr[particles[k]].age <= attr[particles[k]].lifetime
\* a sparkle still on the screen has been released because of its age alone.
SparkleAgeBoundedWitness ==
    /\ scene = "sparkles" /\ stage = "recycling"
    /\ attr[Released].age > attr[Released].lifetime
    /\ Visible(attr[Released])

\* C14: when onDestroy has returned, the cleanup of pool.dispose was given
\* every entity the scene's factory ever made, live or free, once, and nothing
\* else; the pool reports available = active = total = 0.
DestroyCleansEveryEntity ==
    stage = "destroyed" =>
        /\ \A e \in 1..nextId : calls[e] = 1
        /\ calls[Foreign] = 0
        /\ Stats = [available |-> 0, active |-> 0, total |-> 0]
        /\ children = <<>>
\* a SnowSystem of two particles destroyed after an update that recycled one.
DestroyCleansEveryEntityWitness ==
    /\ stage = "destroyed" /\ scene = "snow" /\ particleCount >= 2
    /\ \E e \in 1..nextId : attr[e].y < 0

\* C15: in every tick that finds the app running, each scene attached (once)
\* with addScene has its update invoked exactly once, and elapsed has advanced
\* by the tick's delta, once; whatever start and stop calls came before.
UpdateOncePerTick ==
    (frame.name = "tick" /\ isRunning) =>
        /\ \A s \in SceneIds : Times(scenes, s) = 1 => frame.update[s] = 1
        /\ elapsed = frame.before + frame.delta

\* C16: when destroy has returned, every scene that was attached with addScene
\* (once) has received onDestroy exactly once, removed in between or not.
EveryAttachedSceneDestroyedOnce ==
    frame.name = "destroy" =>
        \A s \in SceneIds : hooks[s].onAdd = 1 => hooks[s].onDestroy = 1

\* C17: once destroy has run, no tick invokes update and no resize invokes
\* onResize on a scene that destroy tore down (a scene attached again
\* afterwards is a new attachment); such a scene is not in App.scenes.
NoCallsAfterDestroy ==
    destroyed =>
        \A s \in torn :
            /\ frame.update[s] = 0
            /\ frame.onResize[s] = 0
            /\ s \notin Range(scenes)
\* a tick after destroy, with callbacks of start still on a running ticker
\* and a scene attached again next to one that is torn down.
NoCallsAfterDestroyWitness ==
    /\ destroyed /\ frame.name = "tick" /\ tickerStarted /\ listeners > 0
    /\ torn # {} /\ scenes # <<>>

\* A fraction in [-1, 1].
InUnit(q) == q.den > 0 /\ -q.den <= q.num /\ q.num <= q.den

\* C18: two Noise instances constructed with the same seed, whatever seed the
\* caller passed, return the same flowField (both components) for the same
\* arguments.
FlowFieldDeterministic ==
    (fn.name = "flowField" /\ instances[1].seed = instances[2].seed) =>
        ret[1] = ret[2]

\* C19: with single-octave samples in [-1, 1], fbm2D and fbm3D return a value
\* in [-1, 1] for every octaves from 1 to 8 and persistence 0, 0.5 and 1, and
\* both components of flowField are in [-1, 1].
FbmBounded ==
    /\ fn.name \in {"fbm2D", "fbm3D"} => InUnit(ret)
    /\ fn.name = "flowField" =>
           \A k \in 1..2 : InUnit(ret[k].x) /\ InUnit(ret[k].y)
\* fbm3D over eight octaves of full amplitude that comes out at an end of the range.
FbmBoundedWitness ==
    /\ fn.name = "fbm3D" /\ fn.octaves = 8 /\ fn.persistence = 2
    /\ ret.num = ret.den

\* The sum of the first k weights, and the first bucket whose cumulative
\* weight reaches the draw (0: the draw is past the last bucket).
RECURSIVE Cumulative(_, _)
Cumulative(weights, k) == IF k = 0 THEN 0 ELSE Cumulative(weights, k - 1) + weights[k]
FirstBucket(weights, r) ==
    IF \E k \in 1..Len(weights) : Cumulative(weights, k) >= r
    THEN CHOOSE k \in 1..Len(weights) :
             /\ Cumulative(weights, k) >= r
             /\ \A j \in 1..(k - 1) : Cumulative(weights, j) < r
    ELSE 0

\* C20: randomPick with weights and pickFromPalette return the item of the
\* first bucket whose cumulative weight is >= the draw, and the last item when
\* the draw is past the last bucket.
WeightedPickContract ==
    (fn.name \in {"randomPick", "pickFromPalette"} /\ fn.weighted) =>
        LET k == FirstBucket(fn.weights, fn.r)
        IN  ret = IF k # 0 THEN fn.items[k] ELSE fn.items[Len(fn.items)]

\* C21 as stated: no callback scheduled through setTimeout or setInterval is
\* invoked once destroy has run, whenever it was scheduled, and destroy leaves
\* App.timers empty.
NoTimerAfterDestroy ==
    /\ frame.name = "fire" => ~destroyed
    /\ frame.name = "destroy" => timers = {}

\* C21: App.timers holds exactly the ids the host still holds; destroy clears
\* every one of them and leaves the set empty, so a callback scheduled before
\* a destroy is never invoked after it: a timer that fires was handed out
\* after the last destroy, and the host holds no id handed out before it.
TimersClearedByDestroy ==
    /\ timers = {id \in TimerIds : pending[id] # "none"}
    /\ \A id \in 1..clearedUpTo : pending[id] = "none"
    /\ frame.name = "fire" => frame.timer > clearedUpTo
    /\ frame.name = "destroy" => timers = {}
\* destroy has just cleared two timers that were pending, after a third had
\* been handed out and was gone already.
TimersClearedByDestroyWitness ==
    /\ frame.name = "destroy" /\ destroyed
    /\ Cardinality(frame.cleared) = 2 /\ clearedUpTo = 3

\* The particles that are live before and after a step.
StayingLive == Range(particles) \cap Range(particles')

\* C22: no step of update changes the depth of a particle that stays live or
\* decreases its age (frame deltas are >= 0); depth and age are assigned by the
\* spawn initializer only, which runs on an entity that is not live.
DepthAndAgeStable ==
    [][\A e \in StayingLive :
          /\ attr'[e].depth = attr[e].depth
          /\ attr'[e].age >= attr[e].age]_vars
\* an update has returned and a live sparkle is older than any spawn makes it:
\* its age has grown to its lifetime.
DepthAndAgeStableWitness ==
    /\ stage = "added" /\ scene = "sparkles"
    /\ \E k \in 1..Len(particles) : attr[particles[k]].age = attr[particles[k]].lifetime

\* A step in which update returns.
UpdateReturns == stage \in {"updating", "recycling"} /\ stage' = "added"

\* The drawn entities of a container are in ascending order of depth.
AscendingDepth(ch, a) ==
    \A j, k \in 1..Len(ch) : j < k => a[ch[j]].depth <= a[ch[k]].depth

\* C23: when an update of a SnowSystem or a TestScene returns, recycles and
\* replacements included, the children of its container are in ascending
\* order of depth.
DepthOrderedAfterUpdate ==
    [][(UpdateReturns /\ scene \in {"snow", "test"}) =>
          AscendingDepth(children', attr')]_vars

\* A sequence back to front.
Reverse(seq) == [k \in 1..Len(seq) |-> seq[Len(seq) + 1 - k]]

\* The particles of the live list an update began with that are at an index
\* above n, in the order a loop counting down takes them.
TakenAbove(n) == Reverse(SubSeq(loop.start, n + 1, Len(loop.start)))

\* C24: in an update of any of the three scenes, however many particles it
\* recycles, the pass for index i takes the particle that was at index i when
\* the update began, never an entity this update has spawned, and the passes
\* before it have taken exactly the particles that were above i, once each;
\* so when the pass for index 1 is over every particle of the initial live
\* list has been taken exactly once and no replacement has.
NoSkipNoDoubleVisit ==
    /\ stage = "updating" =>
           /\ particles[loop.i] = loop.start[loop.i]
           /\ particles[loop.i] \notin loop.spawned
           /\ loop.visited = TakenAbove(loop.i)
    /\ stage = "recycling" =>
           /\ loop.visited = TakenAbove(loop.i - 1)
           /\ loop.visited[Len(loop.visited)] \notin Range(particles)
\* an update that has recycled and replaced one particle and, in its last
\* pass, has just released another.
NoSkipNoDoubleVisitWitness ==
    /\ stage = "recycling" /\ loop.i = 1
    /\ loop.spawned # {} /\ Len(loop.visited) = 2

\* C25: an update with delta = 0 leaves a particle's position and age as they
\* were, in each of the three scenes and whatever the frame draws from elapsed,
\* and leaves the wind timer and the wind direction as they were.
DeltaZeroChangesNothing ==
    /\ (fn.name = "pass" /\ fn.delta = 0) =>
           /\ ret.x = fn.particle.x /\ ret.sub = fn.particle.sub
           /\ ret.y = fn.particle.y
           /\ ret.age = fn.particle.age
    /\ (fn.name = "wind" /\ fn.delta = 0) =>
           /\ windDirection = fn.direction
           /\ windChangeTimer = fn.timer

\* v lies between a and b, ends included.
Between(v, a, b) == (a <= v /\ v <= b) \/ (b <= v /\ v <= a)

\* C26: after the wind lines of update, for every delta >= 0, the wind
\* direction lies between its previous value and the current target and
\* within [-windStrength, windStrength]; the target changes only in an update
\* whose accumulated timer exceeds 3, and that update leaves the timer at 0.
WindBlendNoOvershoot ==
    fn.name = "wind" =>
        /\ Between(windDirection, fn.direction, targetWindDirection)
        /\ windDirection \in (-WindDen)..WindDen
        /\ targetWindDirection # fn.target => fn.timer + fn.delta > 3
        /\ fn.timer + fn.delta > 3 => windChangeTimer = 0

\* C27: from onAdd on, through any number of updates, the factory has been
\* invoked exactly particleCount times and the pool's total is particleCount;
\* whenever no update is under way the free list is empty, and inside an
\* update it holds at most the one entity a pass has released and is about to
\* acquire again.
PoolNeverGrows ==
    stage \in {"added", "updating", "recycling"} =>
        /\ nextId = particleCount
        /\ Stats.total = particleCount
        /\ stage = "added" => pool = <<>>
        /\ stage = "updating" => pool = <<>>
        /\ stage = "recycling" => Len(pool) = 1
\* a TestScene after an update that recycled every one of its particles: all
\* of them are replacements at the top, and nothing was made for them.
PoolNeverGrowsWitness ==
    /\ stage = "added" /\ scene = "test" /\ particleCount = MaxParticles
    /\ \A k \in 1..Len(particles) : attr[particles[k]].y = -10
    /\ nextId = particleCount /\ pool = <<>>

\* No element occurs twice in a sequence.
NoDuplicates(seq) == Cardinality(Range(seq)) = Len(seq)

\* C28: after onAdd and after every update of any of the three scenes the
\* live list has no duplicates and, as a set, is the pool's active set and the
\* set of children of the container (which has no duplicates either); no
\* entity of the free list is in it.
LiveListIsActiveSet ==
    stage = "added" =>
        /\ NoDuplicates(particles)
        /\ NoDuplicates(children)
        /\ Range(particles) = Range(active)
        /\ Range(particles) = Range(children)
        /\ Range(pool) \cap Range(particles) = {}
        /\ Range(pool) \cap Range(children) = {}
\* a SnowSystem after an update that recycled one of two particles and whose
\* sort has put the replacement, last in the live list, first in the container.
LiveListIsActiveSetWitness ==
    /\ stage = "added" /\ scene = "snow" /\ Len(particles) = 2
    /\ attr[particles[2]].y < 0 /\ attr[particles[1]].y >= 0
    /\ children[1] = particles[2]

\* The Apps createApp has created that are not destroyed.
LiveApps == {a \in CallIds : appStatus[a] \in {"initialising", "ready"}}

\* A createApp call returns in this step, and what it returns.
Returns(c) == call[c].pc = "awaiting" /\ call'[c].pc = "returned"

\* C29: at most one App that createApp created is live at any time, and the
\* App a createApp call returns is, at that moment, not destroyed and the one
\* getApp returns; also when createApp calls overlap at the await of init
\* (Apps are destroyed by createApp alone).
SingletonApp ==
    /\ [](Cardinality(LiveApps) <= 1)
    /\ [][\A c \in CallIds :
              Returns(c) =>
                  /\ call'[c].ret = GetApp'
                  /\ appStatus'[call'[c].ret] # "destroyed"]_vars
\* two calls have overlapped: the first has returned the App of the second,
\* whose init has not settled, and its own App was destroyed under its init.
SingletonAppWitness ==
    /\ call[1].pc = "returned" /\ call[1].ret = 2
    /\ appStatus[1] = "destroyed" /\ appStatus[2] = "initialising"
    /\ call[2].pc = "awaiting"

\* Entity e has just been recycled: released by a pass of update.
JustRecycled(e) == stage = "recycling" /\ Released = e

\* C30: when update is called again and again with deltas of at least a
\* positive constant, no particle of a SnowSystem and no sparkle stays alive
\* for ever: every entity of the scene is recycled again and again, so each
\* of its lives, from a spawn to the next recycle, ends.
EveryParticleRecycled ==
    \A e \in 1..MaxParticles :
        []<>((scene \in {"snow", "sparkles"} /\ e <= particleCount) => JustRecycled(e))
\* a snowflake that was spawned above the screen has fallen through it and is
\* released below the bottom margin, and a frame with a positive delta did it.
EveryParticleRecycledWitness ==
    /\ scene = "snow" /\ stage = "recycling" /\ loop.delta >= MinDelta
    /\ attr[Released].y > Height + 20
    /\ attr[Released].x \in (-60)..(Width + 60)
    /\ loop.spawned # {}

====
